---------------------------- MODULE Spec2Model ----------------------------
(***************************************************************************)
(* Solar pro-forma generator (src/app.py): the form, the live preview, and *)
(* the generation of the workbook (25-year cash flow, client summary).     *)
(*                                                                         *)
(* Numbers.  The program computes in Python floats.  Here a float is a     *)
(* decimal fixed-point number: the integer n stands for n / Scale, with    *)
(* Scale = 1000, the finest step of the form's inputs (0.001).  A sum or a *)
(* difference is exact; every product and every quotient is rounded once   *)
(* to the nearest unit, as every float operation rounds once.  So two      *)
(* expressions that are equal as reals but multiply in a different order   *)
(* may differ in the last places, here as in the program.  Python ints     *)
(* (tsrf, the ACP tables, 1000) stay plain integers.                       *)
(***************************************************************************)
EXTENDS Integers, Sequences, FiniteSets, TLC

VARIABLES
    pc,               \* where the script run stands: run, generate, loop, summary, idle
    generate_button,  \* st.button's value in the current run
    inp,              \* the widgets' values
    live,             \* the live-preview metrics of the current run
    year,             \* the loop variable of the cash-flow loop
    cumulative,       \* the running cumulative of the cash-flow loop
    ws_cashflow,      \* sheet "25-Year Cash Flow": row number -> the row's cells
    ws_summary,       \* sheet "Client Summary", 25-year totals: label -> value
    last_cashflow     \* history: the cash-flow sheet of the run before, when the
                      \* button started this run (the widgets' values are the same)

vars == <<pc, generate_button, inp, live, year, cumulative,
          ws_cashflow, ws_summary, last_cashflow>>

---------------------------------------------------------------------------
(* Float arithmetic, at Scale units per 1.0 *)

Scale == 1000

\* a * b for two floats >= 0, rounded to the nearest unit.  The product is
\* taken in four parts so that no intermediate exceeds the result's range.
Mul(a, b) ==
    LET ah == a \div Scale
        al == a % Scale
        bh == b \div Scale
        bl == b % Scale
    IN  ah * bh * Scale + ah * bl + al * bh + (al * bl + Scale \div 2) \div Scale

\* a / n for a float a >= 0 and a Python int n > 0, rounded to the nearest unit.
DivInt(a, n) == (a + n \div 2) \div n

\* Long division: q is the quotient so far, r the remainder, n the decimal
\* places still to produce; the last place is rounded to the nearest.
RECURSIVE LongDiv(_, _, _, _)
LongDiv(q, r, b, n) ==
    IF n = 0
    THEN q + (IF 2 * r >= b THEN 1 ELSE 0)
    ELSE LongDiv(q * 10 + (r * 10) \div b, (r * 10) % b, b, n - 1)

\* a / b for two floats, a >= 0 and b > 0, rounded to the nearest unit
\* (three decimal places: Scale = 10^3).
Div(a, b) == LongDiv(a \div b, a % b, b, 3)

\* x ** n for a float x and a Python int n >= 0; x ** 0 is 1.0.
RECURSIVE Pow(_, _)
Pow(x, n) == IF n = 0 THEN Scale ELSE Mul(Pow(x, n - 1), x)

---------------------------------------------------------------------------
(* The form *)

\* The 17 pricing fields, in the order pricing_inputs is filled.
Categories ==
    << "Modules", "Inverters", "Racking", "Ballast Block", "Electrical Material",
       "Other Materials", "Equipment Rental", "Roof Attachments", "Dumpsters",
       "Porta John", "Safety Equipment", "Engineering", "Stamps", "Permits",
       "Revenue Grade Meters", "IX Application Fees", "Origination Costs" >>

CategorySet == {Categories[i] : i \in 1..Len(Categories)}

\* st.session_state defaults, the value= of each pricing field ($/W).
DefaultPricing ==
    [c \in CategorySet |->
        CASE c = "Modules"              -> 280
          [] c = "Inverters"            -> 150
          [] c = "Racking"              -> 230
          [] c = "Ballast Block"        -> 20
          [] c = "Electrical Material"  -> 230
          [] c = "Other Materials"      -> 20
          [] c = "Equipment Rental"     -> 40
          [] c = "Roof Attachments"     -> 20
          [] c = "Dumpsters"            -> 10
          [] c = "Porta John"           -> 0
          [] c = "Safety Equipment"     -> 10
          [] c = "Engineering"          -> 20
          [] c = "Stamps"               -> 30
          [] c = "Permits"              -> 30
          [] c = "Revenue Grade Meters" -> 10
          [] c = "IX Application Fees"  -> 0
          [] c = "Origination Costs"    -> 50]

\* min_value and max_value of the number inputs.
PricingMin == 0
PricingMax == 5 * Scale
SizeMin == 1 * Scale
SizeMax == 10000 * Scale
RateMin == 50


\* The widgets' options.
Jurisdictions == {"Maryland", "Washington DC"}
MdSrecPrograms == {"Standard SREC", "Brighter Tomorrow SREC"}
ItcStatuses == {"With ITC (30%)", "Without ITC"}
EscalationRates == {"2.0% (Conservative)", "3.5% (Moderate)", "5.0% (Aggressive)"}

\* srec_program: the MD selectbox's value (its first option when the box is
\* drawn anew), or the fixed DC string when the jurisdiction is not Maryland.
SrecPrograms(jurisdiction) ==
    IF jurisdiction = "Maryland" THEN MdSrecPrograms ELSE {"Standard SREC (DC)"}

default_srec_program(jurisdiction) ==
    IF jurisdiction = "Maryland" THEN "Standard SREC" ELSE "Standard SREC (DC)"

\* float(escalation_rate.split("%")[0]): the number before the percent sign.
EscalationPrefix(escalation_rate) ==
    CASE escalation_rate = "2.0% (Conservative)" -> 2 * Scale
      [] escalation_rate = "3.5% (Moderate)"     -> 3 * Scale + Scale \div 2
      [] escalation_rate = "5.0% (Aggressive)"   -> 5 * Scale

escalation(escalation_rate) == DivInt(EscalationPrefix(escalation_rate), 100)

---------------------------------------------------------------------------
(* The live preview: pricing totals, year-1 metrics, ITC, payback *)

system_size_w(system_size_kw) == system_size_kw * 1000

\* sum(pricing_inputs.values()): the values added in insertion order.
RECURSIVE SumValues(_, _)
SumValues(pricing_inputs, n) ==
    IF n = 0 THEN 0
    ELSE SumValues(pricing_inputs, n - 1) + pricing_inputs[Categories[n]]

\* Mutant: the last field is left out of the sum.
total_per_watt_drops_last(pricing_inputs) ==
    SumValues(pricing_inputs, Len(Categories) - 1)

total_per_watt(pricing_inputs) == SumValues(pricing_inputs, Len(Categories))

\* Mutant: a negative unit cost or a size that is not positive is refused,
\* and no cost comes out.
total_cost_validated(pricing_inputs, system_size_kw) ==
    IF \/ \E c \in DOMAIN pricing_inputs : pricing_inputs[c] < 0
       \/ system_size_kw <= 0
    THEN 0
    ELSE Mul(total_per_watt(pricing_inputs), system_size_w(system_size_kw))

total_cost(pricing_inputs, system_size_kw) ==
    Mul(total_per_watt(pricing_inputs), system_size_w(system_size_kw))

year1_production(system_size_kw, tsrf) == system_size_kw * tsrf

year1_savings(production1, electric_rate) == Mul(production1, electric_rate)

srec_value(jurisdiction, srec_program) ==
    IF jurisdiction = "Maryland"
    THEN IF srec_program = "Standard SREC"
         THEN Mul(55 * Scale, 900)
         ELSE Mul(Mul(55 * Scale, 900), 1500)
    ELSE Mul(460 * Scale, 850)

\* Mutant: one SREC per 100 kWh.
year1_srecs_per_100(production1) == DivInt(production1, 100)

year1_srecs(production1) == DivInt(production1, 1000)

year1_srec_income(srecs1, srec_val1) == Mul(srecs1, srec_val1)

itc_amount(itc_status, cost) ==
    IF itc_status = "With ITC (30%)" THEN Mul(cost, 300) ELSE 0

depreciable_basis(itc_status, cost) ==
    IF itc_status = "With ITC (30%)" THEN Mul(cost, 850) ELSE cost

year1_depreciation(basis) == basis

year1_depreciation_tax_savings(depreciation1, tax_bracket) ==
    Mul(depreciation1, tax_bracket)

\* Mutant: the credit is not taken off the cost.
after_itc_cost_gross(cost, itc) == cost

after_itc_cost(cost, itc) == cost - itc

year1_total_benefit(savings1, srec_income1, tax_savings1) ==
    savings1 + srec_income1 + tax_savings1

\* Mutant: the SREC income is subtracted in the condition.
payback_divides_minus(savings1, srec_income1) == (savings1 - srec_income1) > 0

\* The conditional expression of simple_payback: the division is evaluated
\* only in the branch whose condition held.
payback_divides(savings1, srec_income1) == (savings1 + srec_income1) > 0

\* Mutant: the SREC income is left out of the divisor.
simple_payback_savings_only(after_itc, savings1, srec_income1) ==
    IF savings1 > 0 THEN Div(after_itc, savings1) ELSE 0

simple_payback(after_itc, savings1, srec_income1) ==
    IF payback_divides(savings1, srec_income1)
    THEN Div(after_itc, savings1 + srec_income1)
    ELSE 0

\* Every name the preview assigns, from the widgets' values.
LiveMetrics(i) ==
    LET tpw   == total_per_watt(i.pricing_inputs)
        cost  == total_cost(i.pricing_inputs, i.system_size_kw)
        prod1 == year1_production(i.system_size_kw, i.tsrf)
        sav1  == year1_savings(prod1, i.electric_rate)
        sval  == srec_value(i.jurisdiction, i.srec_program)
        srecs == year1_srecs(prod1)
        sinc  == year1_srec_income(srecs, sval)
        itc   == itc_amount(i.itc_status, cost)
        basis == depreciable_basis(i.itc_status, cost)
        dep1  == year1_depreciation(basis)
        dts   == year1_depreciation_tax_savings(dep1, i.tax_bracket)
        aic   == after_itc_cost(cost, itc)
    IN  [ system_size_w |-> system_size_w(i.system_size_kw),
          total_per_watt |-> tpw,
          total_cost |-> cost,
          year1_production |-> prod1,
          year1_savings |-> sav1,
          srec_value |-> sval,
          year1_srecs |-> srecs,
          year1_srec_income |-> sinc,
          itc_amount |-> itc,
          depreciable_basis |-> basis,
          year1_depreciation |-> dep1,
          year1_depreciation_tax_savings |-> dts,
          after_itc_cost |-> aic,
          year1_total_benefit |-> year1_total_benefit(sav1, sinc, dts),
          payback_divided |-> payback_divides(sav1, sinc),
          simple_payback |-> simple_payback(aic, sav1, sinc) ]

\* Before the preview of a run has been computed none of its names is bound.
NoLive == [f \in {} |-> 0]

---------------------------------------------------------------------------
(* The 25-year cash flow *)

\* range(1, 26) ends with this year.
LastYear == 25

\* The ten cells written on row 3.
headers ==
    << "Year", "Electric Rate", "Production", "Electric Savings", "SREC Value",
       "SRECs", "SREC Income", "Tax Savings", "Total Benefit", "Cumulative" >>

\* get_column_letter(i + 2) for the ten columns
columns == <<"B", "C", "D", "E", "F", "G", "H", "I", "J", "K">>

\* Row 3: the header of column i + 2 is headers[i].
HeaderCells ==
    [col \in {columns[k] : k \in 1..Len(headers)} |->
        headers[CHOOSE k \in 1..Len(headers) : columns[k] = col]]

\* [a] * n
Repeat(a, n) == [k \in 1..n |-> a]

\* Mutant: the Maryland table never reaches zero.
md_acp_no_zero == <<55, 45, 35, 30, 30, 30, 30, 30>> \o Repeat(30, 17)

md_acp == <<55, 45, 35, 30, 30, 30, 30, 30, 0>> \o Repeat(0, 16)

\* Mutant: the DC table without its floor years.
dc_acp_no_floor ==
    <<460, 440, 420, 400, 380, 360, 340, 320,
      300, 300, 300, 300, 300, 300, 300, 300, 300>>

dc_acp ==
    <<460, 440, 420, 400, 380, 360, 340, 320,
      300, 300, 300, 300, 300, 300, 300, 300, 300>> \o Repeat(100, 8)

acp_schedule(jurisdiction) ==
    IF jurisdiction = "Washington DC" THEN dc_acp ELSE md_acp

\* Mutant: every program but "Standard SREC" is taken for the enhanced one.
srec_multiplier_not_standard(srec_program) ==
    IF srec_program = "Standard SREC" THEN Scale ELSE 1500

srec_multiplier(srec_program) ==
    IF srec_program = "Brighter Tomorrow SREC" THEN 1500 ELSE Scale

srec_pct(jurisdiction) ==
    IF jurisdiction = "Washington DC" THEN 850 ELSE 900

\* The sheet row of a year.
\* Mutant: the rows wrap, the last year is written over the first.
row_of_modulo(y) == 4 + ((y - 1) % (LastYear - 1))

row_of(y) == 3 + y

\* Mutant: year 1 is already escalated.
electric_rate_year_escalates_year1(electric_rate, esc, y) ==
    Mul(electric_rate, Pow(Scale + esc, y))

electric_rate_year(electric_rate, esc, y) ==
    Mul(electric_rate, Pow(Scale + esc, y - 1))

production(production1, degradation, y) ==
    Mul(production1, Pow(Scale - degradation, y - 1))

savings(prod, rate_year) == Mul(prod, rate_year)

acp(schedule, y) == IF y <= Len(schedule) THEN schedule[y] ELSE 0

srec_val(acp_y, pct, multiplier) == Mul(Mul(acp_y * Scale, pct), multiplier)

srecs(prod) == DivInt(prod, 1000)

srec_income(srec_count, val) == Mul(srec_count, val)

\* Mutant: the depreciation tax savings are counted every year.
tax_savings_every_year(tax_savings1, y) == tax_savings1

tax_savings(tax_savings1, y) == IF y = 1 THEN tax_savings1 ELSE 0

total_benefit(sav, sinc, tax) == sav + sinc + tax

\* Mutant: the cumulative is assigned the year's benefit, not increased by it.
YearCells_assigns(i, l, cum, y) ==
    LET rate_y == electric_rate_year(i.electric_rate, escalation(i.escalation_rate), y)
        prod   == production(l.year1_production, i.degradation, y)
        sav    == savings(prod, rate_y)
        val    == srec_val(acp(acp_schedule(i.jurisdiction), y),
                           srec_pct(i.jurisdiction), srec_multiplier(i.srec_program))
        cnt    == srecs(prod)
        sinc   == srec_income(cnt, val)
        tax    == tax_savings(l.year1_depreciation_tax_savings, y)
        tb     == total_benefit(sav, sinc, tax)
    IN  [ B |-> y, C |-> rate_y, D |-> prod, E |-> sav, F |-> val, G |-> cnt,
          H |-> sinc, I |-> tax, J |-> tb, K |-> tb ]

\* One iteration of the loop for year y: the row's cells, the cumulative
\* being the running value `cum` plus this year's total benefit.
YearCells(i, l, cum, y) ==
    LET rate_y == electric_rate_year(i.electric_rate, escalation(i.escalation_rate), y)
        prod   == production(l.year1_production, i.degradation, y)
        sav    == savings(prod, rate_y)
        val    == srec_val(acp(acp_schedule(i.jurisdiction), y),
                           srec_pct(i.jurisdiction), srec_multiplier(i.srec_program))
        cnt    == srecs(prod)
        sinc   == srec_income(cnt, val)
        tax    == tax_savings(l.year1_depreciation_tax_savings, y)
        tb     == total_benefit(sav, sinc, tax)
    IN  [ B |-> y, C |-> rate_y, D |-> prod, E |-> sav, F |-> val, G |-> cnt,
          H |-> sinc, I |-> tax, J |-> tb, K |-> cum + tb ]

\* ws[row] = cells
SetRow(ws, row, cells) ==
    [r \in DOMAIN ws \cup {row} |-> IF r = row THEN cells ELSE ws[r]]

---------------------------------------------------------------------------
(* The client summary's 25-year totals *)

\* Mutant: the degradation is left out of the summary's electric savings.
RECURSIVE SumElectricNoDegradation(_, _, _)
SumElectricNoDegradation(i, l, y) ==
    IF y = 0 THEN 0
    ELSE SumElectricNoDegradation(i, l, y - 1)
         + Mul(Mul(l.year1_production, i.electric_rate),
               Pow(Scale + escalation(i.escalation_rate), y - 1))

total_electric_savings_no_degradation(i, l) ==
    SumElectricNoDegradation(i, l, LastYear)

\* sum([f(y) for y in range(1, 26)]) of the electric-savings expression
RECURSIVE SumElectric(_, _, _)
SumElectric(i, l, y) ==
    IF y = 0 THEN 0
    ELSE SumElectric(i, l, y - 1)
         + Mul(Mul(Mul(l.year1_production, i.electric_rate),
                   Pow(Scale + escalation(i.escalation_rate), y - 1)),
               Pow(Scale - i.degradation, y - 1))

total_electric_savings(i, l) == SumElectric(i, l, LastYear)

\* sum([f(y) for y in range(1, 26)]) of the SREC-income expression
RECURSIVE SumSrec(_, _, _)
SumSrec(i, l, y) ==
    IF y = 0 THEN 0
    ELSE SumSrec(i, l, y - 1)
         + Mul(DivInt(Mul(l.year1_production, Pow(Scale - i.degradation, y - 1)), 1000),
               IF y <= Len(acp_schedule(i.jurisdiction))
               THEN Mul(Mul(acp_schedule(i.jurisdiction)[y] * Scale,
                            srec_pct(i.jurisdiction)),
                        srec_multiplier(i.srec_program))
               ELSE 0)

total_srec_income(i, l) == SumSrec(i, l, LastYear)

grand_total(electric_total, srec_total, tax_savings1) ==
    electric_total + srec_total + tax_savings1

\* The four rows of "25-YEAR TOTALS".
SummaryTotals(i, l) ==
    LET electric_total == total_electric_savings(i, l)
        srec_total     == total_srec_income(i, l)
        tax_total      == l.year1_depreciation_tax_savings
        grand          == grand_total(electric_total, srec_total, tax_total)
    IN  [ label \in {"Total Electric Savings", "Total SREC Income",
                     "Total Tax Benefits", "GRAND TOTAL BENEFITS"} |->
            CASE label = "Total Electric Savings" -> electric_total
              [] label = "Total SREC Income"      -> srec_total
              [] label = "Total Tax Benefits"     -> tax_total
              [] label = "GRAND TOTAL BENEFITS"   -> grand ]

\* A sheet with nothing written on it.
EmptySheet == [r \in {} |-> 0]

---------------------------------------------------------------------------
(* The values the model enters into the form *)

MaxSizeSteps == 1
MaxDegradationSteps == 1

\* System size (kW): the minimum of the box, and multiples of 12.5 kW.
SizeChoices == {SizeMin} \cup {12500 * k : k \in 1..MaxSizeSteps}

\* TSRF: the minimum of the box, and its default.
TsrfChoices == {500, 1250}

\* Electric rate ($/kWh): the minimum of the box, and the PEPCO Maryland default.
RateChoices == {RateMin, 135}

\* Tax bracket: the minimum of the box, and its default.
TaxChoices == {0, 210}

\* Panel degradation: multiples of the default 0.005, from the minimum 0.
DegradationChoices == {5 * k : k \in 0..MaxDegradationSteps}

\* Pricing: the defaults, every field at its minimum, and the defaults with
\* the first or the last field at its minimum or its maximum.
ZeroPricing == [c \in CategorySet |-> PricingMin]

EditedCategories == {Categories[1], Categories[Len(Categories)]}

PricingChoices ==
    {DefaultPricing, ZeroPricing}
    \cup {[DefaultPricing EXCEPT ![c] = v] :
            c \in EditedCategories, v \in {PricingMin, PricingMax}}

\* The form as it is first drawn (every value= and index=), but for the
\* system size, which the model keeps small.
BaseInputs ==
    [ system_size_kw |-> 12500,
      jurisdiction |-> "Maryland",
      electric_rate |-> 135,
      tsrf |-> 1250,
      tax_bracket |-> 210,
      itc_status |-> "With ITC (30%)",
      srec_program |-> "Standard SREC",
      escalation_rate |-> "3.5% (Moderate)",
      degradation |-> 5,
      pricing_inputs |-> DefaultPricing ]

\* The number of widgets whose value is not the one of BaseInputs.
Changed(i) == Cardinality({w \in DOMAIN BaseInputs : i[w] # BaseInputs[w]})

MaxChanged == 3

\* The forms the model fills in: at most MaxChanged widgets away from the
\* base form, the SREC program being one the jurisdiction offers.
InputSpace ==
    { i \in [ system_size_kw : SizeChoices,
              jurisdiction : Jurisdictions,
              electric_rate : RateChoices,
              tsrf : TsrfChoices,
              tax_bracket : TaxChoices,
              itc_status : ItcStatuses,
              srec_program : MdSrecPrograms \cup {"Standard SREC (DC)"},
              escalation_rate : EscalationRates,
              degradation : DegradationChoices,
              pricing_inputs : PricingChoices ] :
        /\ i.srec_program \in SrecPrograms(i.jurisdiction)
        /\ Changed(i) <= MaxChanged }

\* The values one widget can be changed to, the others being as in i.
WidgetChoices(w, i) ==
    CASE w = "system_size_kw"  -> SizeChoices
      [] w = "jurisdiction"    -> Jurisdictions
      [] w = "electric_rate"   -> RateChoices
      [] w = "tsrf"            -> TsrfChoices
      [] w = "tax_bracket"     -> TaxChoices
      [] w = "itc_status"      -> ItcStatuses
      [] w = "srec_program"    -> SrecPrograms(i.jurisdiction)
      [] w = "escalation_rate" -> EscalationRates
      [] w = "degradation"     -> DegradationChoices
      [] w = "pricing_inputs"  ->
            {p \in PricingChoices :
                Cardinality({c \in CategorySet : p[c] # i.pricing_inputs[c]}) = 1}

---------------------------------------------------------------------------
(* The script: every run executes the form, the preview and, when the run *)
(* was started by the button, the generation of the workbook.              *)

\* What a new run starts from: no name of the previous run is bound.
StartRun(button) ==
    /\ pc' = "run"
    /\ generate_button' = button
    /\ live' = NoLive
    /\ year' = 0
    /\ cumulative' = 0
    /\ ws_cashflow' = EmptySheet
    /\ ws_summary' = EmptySheet
    /\ last_cashflow' = IF button THEN ws_cashflow ELSE EmptySheet

Init ==
    /\ pc = "run"
    /\ generate_button = FALSE
    /\ inp \in InputSpace
    /\ live = NoLive
    /\ year = 0
    /\ cumulative = 0
    /\ ws_cashflow = EmptySheet
    /\ ws_summary = EmptySheet
    /\ last_cashflow = EmptySheet

\* The user changes one widget: the script runs again, the button not pressed.
Edit ==
    /\ pc = "idle"
    /\ \E w \in DOMAIN inp :
         \E v \in WidgetChoices(w, inp) :
            /\ v # inp[w]
            /\ inp' = IF w = "jurisdiction"
                      THEN [inp EXCEPT !.jurisdiction = v,
                                       !.srec_program = default_srec_program(v)]
                      ELSE [inp EXCEPT ![w] = v]
            /\ inp' \in InputSpace
    /\ StartRun(FALSE)

\* The user presses the button: the script runs again with the same values.
Click ==
    /\ pc = "idle"
    /\ StartRun(TRUE)
    /\ UNCHANGED inp

\* Pricing totals and the live preview.
Preview ==
    /\ pc = "run"
    /\ live' = LiveMetrics(inp)
    /\ pc' = IF generate_button THEN "generate" ELSE "idle"
    /\ UNCHANGED <<generate_button, inp, year, cumulative, ws_cashflow, ws_summary,
                   last_cashflow>>

\* Mutant: the running cumulative goes on from the last Cumulative of the
\* generation before.
Generate_carries_over ==
    /\ pc = "generate"
    /\ ws_cashflow' = SetRow(EmptySheet, 3, HeaderCells)
    /\ cumulative' = IF row_of(LastYear) \in DOMAIN last_cashflow
                     THEN last_cashflow[row_of(LastYear)].K - live.after_itc_cost
                     ELSE -live.after_itc_cost
    /\ year' = 1
    /\ pc' = "loop"
    /\ UNCHANGED <<generate_button, inp, live, ws_summary, last_cashflow>>

\* if generate_button: the workbook, the cash-flow header row, the schedules,
\* cumulative = -after_itc_cost.
Generate ==
    /\ pc = "generate"
    /\ ws_cashflow' = SetRow(EmptySheet, 3, HeaderCells)
    /\ cumulative' = -live.after_itc_cost
    /\ year' = 1
    /\ pc' = "loop"
    /\ UNCHANGED <<generate_button, inp, live, ws_summary, last_cashflow>>

\* One iteration of for year in range(1, 26).
LoopYear ==
    /\ pc = "loop"
    /\ LET cells == YearCells(inp, live, cumulative, year)
       IN  /\ ws_cashflow' = SetRow(ws_cashflow, row_of(year), cells)
           /\ cumulative' = cells.K
    /\ year' = IF year < LastYear THEN year + 1 ELSE year
    /\ pc' = IF year < LastYear THEN "loop" ELSE "summary"
    /\ UNCHANGED <<generate_button, inp, live, ws_summary, last_cashflow>>

\* The client summary's 25-year totals; the run ends.
Summary ==
    /\ pc = "summary"
    /\ ws_summary' = SummaryTotals(inp, live)
    /\ pc' = "idle"
    /\ UNCHANGED <<generate_button, inp, live, year, cumulative, ws_cashflow,
                   last_cashflow>>

Next == Edit \/ Click \/ Preview \/ Generate \/ LoopYear \/ Summary

Spec == Init /\ [][Next]_vars

---------------------------------------------------------------------------
(* The calculation alone, on values the form's boxes would not hand over: *)
(* a negative unit cost, a system size of zero or below.                   *)

CoreInputs ==
    { [BaseInputs EXCEPT !.system_size_kw = kw, !.pricing_inputs = p,
                         !.electric_rate = r, !.itc_status = s] :
        kw \in SizeChoices \cup {0, -SizeMin},
        p \in PricingChoices
              \cup {[DefaultPricing EXCEPT ![c] = -10] : c \in EditedCategories},
        r \in RateChoices,
        s \in ItcStatuses }

InitCore ==
    /\ pc = "run"
    /\ generate_button = FALSE
    /\ inp \in CoreInputs
    /\ live = NoLive
    /\ year = 0
    /\ cumulative = 0
    /\ ws_cashflow = EmptySheet
    /\ ws_summary = EmptySheet
    /\ last_cashflow = EmptySheet

SpecCore == InitCore /\ [][Preview]_vars

---------------------------------------------------------------------------
(* The preview alone, on the forms of InputSpace and on a 236.6 kW system *)
(* (the value= of the system size box) priced at 0.95 $/W.                 *)

\* The default system size of the form, in kW.
DefaultSize == 236600

\* The default pricing with Modules lowered to 0.08 $/W: 0.95 $/W in all.
ScenarioPricing == [DefaultPricing EXCEPT !["Modules"] = 80]

\* The form as first drawn, but for Modules.
ScenarioInputs ==
    [BaseInputs EXCEPT !.system_size_kw = DefaultSize,
                       !.pricing_inputs = ScenarioPricing]

\* The 236.6 kW system under every jurisdiction, program, ITC status and
\* pricing of the model.
ScenarioForms ==
    { i \in [ system_size_kw : {DefaultSize},
              jurisdiction : Jurisdictions,
              electric_rate : RateChoices,
              tsrf : TsrfChoices,
              tax_bracket : {BaseInputs.tax_bracket},
              itc_status : ItcStatuses,
              srec_program : MdSrecPrograms \cup {"Standard SREC (DC)"},
              escalation_rate : {BaseInputs.escalation_rate},
              degradation : {BaseInputs.degradation},
              pricing_inputs : PricingChoices \cup {ScenarioPricing} ] :
        i.srec_program \in SrecPrograms(i.jurisdiction) }

PreviewInputs == InputSpace \cup ScenarioForms

InitPreview ==
    /\ pc = "run"
    /\ generate_button = FALSE
    /\ inp \in PreviewInputs
    /\ live = NoLive
    /\ year = 0
    /\ cumulative = 0
    /\ ws_cashflow = EmptySheet
    /\ ws_summary = EmptySheet
    /\ last_cashflow = EmptySheet

SpecPreview == InitPreview /\ [][Preview]_vars

---------------------------------------------------------------------------
(* Properties *)

\* The preview of the current run has been computed.
Previewed == live # NoLive

\* The loop has written the row of year y.
Written(y) == row_of(y) \in DOMAIN ws_cashflow

\* The cells of year y.
Record(y) == ws_cashflow[row_of(y)]

\* The years whose rows are written.
WrittenYears == {y \in 1..LastYear : Written(y)}

\* The sum of column col over the rows of years 1..y.
RECURSIVE ColumnSum(_, _)
ColumnSum(col, y) == IF y = 0 THEN 0 ELSE ColumnSum(col, y - 1) + Record(y)[col]

\* The sum of f over the set S.
RECURSIVE SetSum(_, _)
SetSum(f, S) ==
    IF S = {} THEN 0
    ELSE LET x == CHOOSE x \in S : TRUE IN f[x] + SetSum(f, S \ {x})

\* C1: the running cumulative is -afterITCCost before year 1; the Cumulative
\* of every year written is the Cumulative of the year before (-afterITCCost
\* for year 1) plus the year's Total Benefit; so the Cumulative of year 25 is
\* -afterITCCost plus the sum of the 25 Total Benefits.
C1_CumulativeRecurrence ==
    /\ (pc = "loop" /\ year = 1 /\ ~Written(1)) => cumulative = -live.after_itc_cost
    /\ \A y \in WrittenYears :
          Record(y).K = (IF y = 1 THEN -live.after_itc_cost ELSE Record(y - 1).K)
                        + Record(y).J
    /\ Written(LastYear) =>
          /\ Record(LastYear).K = -live.after_itc_cost + ColumnSum("J", LastYear)
          /\ cumulative = Record(LastYear).K

C1_Witness ==
    /\ pc = "idle"
    /\ Written(LastYear)
    /\ live.after_itc_cost > 0
    /\ Record(1).J > 0
    /\ Record(LastYear).J > 0
    /\ Record(LastYear).K > Record(1).K

\* C2: total_per_watt is the sum of the 17 unit costs, and total_cost is
\* total_per_watt x system_size_kw x 1000.
C2_PricingTotals ==
    Previewed =>
        /\ Cardinality(CategorySet) = 17
        /\ live.total_per_watt = SetSum(inp.pricing_inputs, CategorySet)
        /\ live.total_cost = Mul(live.total_per_watt, inp.system_size_kw) * 1000

C2_Witness ==
    /\ Previewed
    /\ inp.pricing_inputs["Origination Costs"] = PricingMax
    /\ inp.system_size_kw > SizeMin
    /\ live.total_cost > 0

\* C3: with the ITC, itc_amount = 0.30 x total_cost, depreciable_basis =
\* 0.85 x total_cost and after_itc_cost = 0.70 x total_cost; without it,
\* itc_amount = 0 and depreciable_basis = after_itc_cost = total_cost.
C3_Incentive ==
    Previewed =>
        IF inp.itc_status = "With ITC (30%)"
        THEN /\ live.itc_amount = Mul(live.total_cost, 300)
             /\ live.depreciable_basis = Mul(live.total_cost, 850)
             /\ live.after_itc_cost = Mul(live.total_cost, 700)
        ELSE /\ live.itc_amount = 0
             /\ live.depreciable_basis = live.total_cost
             /\ live.after_itc_cost = live.total_cost

C3_Witness ==
    /\ Previewed
    /\ inp.itc_status = "With ITC (30%)"
    /\ live.total_cost > 0
    /\ live.after_itc_cost < live.total_cost

\* C4: the year-1 row of the cash flow (production, electric savings, SREC
\* value, SRECs, SREC income) equals the year-1 metrics of the live preview,
\* for every jurisdiction and SREC program.
C4_YearOneAgrees ==
    Written(1) =>
        /\ Record(1).D = live.year1_production
        /\ Record(1).E = live.year1_savings
        /\ Record(1).F = live.srec_value
        /\ Record(1).G = live.year1_srecs
        /\ Record(1).H = live.year1_srec_income

C4_Witness ==
    /\ Written(1)
    /\ inp.jurisdiction = "Washington DC"
    /\ Record(1).H > 0
    /\ Record(1).E > 0

\* The Maryland ACP of a year, as the specification tabulates it.
MarylandACP(y) == IF y <= 9 THEN <<55, 45, 35, 30, 30, 30, 30, 30, 0>>[y] ELSE 0

\* C5: in Maryland the SREC value of year y is ACP[y] x 0.90 x (1.5 for
\* Brighter Tomorrow, else 1), ACP being 55,45,35,30,30,30,30,30,0 for years
\* 1..9 and 0 after; SREC value and SREC income are 0 from year 9 on.
C5_MarylandSrecValue ==
    inp.jurisdiction = "Maryland" =>
        \A y \in WrittenYears :
            /\ Record(y).F =
                 Mul(MarylandACP(y) * 900,
                     IF inp.srec_program = "Brighter Tomorrow SREC" THEN 1500 ELSE Scale)
            /\ y >= 9 => (Record(y).F = 0 /\ Record(y).H = 0)
            /\ y < 9 => Record(y).F > 0

C5_Witness ==
    /\ inp.jurisdiction = "Maryland"
    /\ inp.srec_program = "Brighter Tomorrow SREC"
    /\ Written(LastYear)
    /\ Record(1).F = 74250
    /\ Record(8).H > 0
    /\ Record(9).H = 0

\* The Washington DC ACP of a year, as the specification tabulates it.
WashingtonACP(y) ==
    IF y <= 8 THEN 460 - 20 * (y - 1) ELSE IF y <= 17 THEN 300 ELSE 100

\* C6: in Washington DC the SREC value of year y is ACP[y] x 0.85, with no
\* enhanced multiplier, ACP being 460 down to 320 in steps of 20 for years
\* 1..8, 300 for years 9..17 and the floor 100 for years 18..25.
C6_WashingtonSrecValue ==
    inp.jurisdiction = "Washington DC" =>
        /\ inp.srec_program = "Standard SREC (DC)"
        /\ \A y \in WrittenYears : Record(y).F = WashingtonACP(y) * 850

C6_Witness ==
    /\ inp.jurisdiction = "Washington DC"
    /\ Written(LastYear)
    /\ Record(17).F = 255000
    /\ Record(18).F = 85000
    /\ Record(LastYear).H > 0

\* The escalation of each option of the form.
EscalationOf(option) ==
    CASE option = "2.0% (Conservative)" -> 20
      [] option = "3.5% (Moderate)"     -> 35
      [] option = "5.0% (Aggressive)"   -> 50

\* C7: the Electric Rate of year y is the base rate x (1 + escalation)^(y-1),
\* the Production is the year-1 production x (1 - degradation)^(y-1), and
\* the Electric Savings is their product; year 1 has the base rate and the
\* year-1 production themselves.
C7_Compounding ==
    \A y \in WrittenYears :
        /\ Record(y).C =
             Mul(inp.electric_rate, Pow(Scale + EscalationOf(inp.escalation_rate), y - 1))
        /\ Record(y).D = Mul(live.year1_production, Pow(Scale - inp.degradation, y - 1))
        /\ Record(y).E = Mul(Record(y).D, Record(y).C)
        /\ y = 1 => /\ Record(y).C = inp.electric_rate
                    /\ Record(y).D = inp.system_size_kw * inp.tsrf

C7_Witness ==
    /\ Written(5)
    /\ inp.degradation > 0
    /\ Record(5).C > Record(1).C
    /\ Record(5).D < Record(1).D
    /\ Record(5).E > 0

\* The divisor of the simple payback.
PaybackDivisor == live.year1_savings + live.year1_srec_income

\* C8: simple_payback is after_itc_cost / (year1_savings + year1_srec_income)
\* when that divisor is > 0 and the sentinel 0 when it is <= 0; the division
\* is evaluated only with a divisor > 0.
C8_PaybackGuard ==
    Previewed =>
        /\ PaybackDivisor > 0 =>
              /\ live.payback_divided
              /\ live.simple_payback = Div(live.after_itc_cost, PaybackDivisor)
        /\ PaybackDivisor <= 0 =>
              /\ ~live.payback_divided
              /\ live.simple_payback = 0

C8_Witness ==
    /\ Previewed
    /\ PaybackDivisor < 0
    /\ live.after_itc_cost # 0
    /\ ~live.payback_divided
    /\ live.simple_payback = 0

\* A negative unit cost, or a system size that is not positive.
Invalid(i) ==
    \/ \E c \in CategorySet : i.pricing_inputs[c] < 0
    \/ i.system_size_kw <= 0

Generated == pc = "idle" /\ DOMAIN ws_summary # {}

Abs(x) == IF x < 0 THEN -x ELSE x

C11_YearOneMetrics ==
    Previewed =>
        /\ live.year1_production = inp.system_size_kw * inp.tsrf
        /\ live.year1_savings = Mul(live.year1_production, inp.electric_rate)
        /\ live.year1_srecs * 1000 = live.year1_production
        /\ live.srec_value =
              CASE inp.srec_program = "Standard SREC"          -> 49500
                [] inp.srec_program = "Brighter Tomorrow SREC" -> 74250
                [] inp.srec_program = "Standard SREC (DC)"     -> 391000
        /\ live.year1_srec_income = Mul(live.year1_srecs, live.srec_value)
        /\ inp = ScenarioInputs =>
              /\ live.total_per_watt = 950
              /\ live.total_cost = 224770000
              /\ live.itc_amount = 67431000
              /\ live.year1_production = 295750000
              /\ live.year1_savings = 39926250
              /\ live.srec_value = 49500
              /\ live.year1_srecs = 295750
              /\ live.year1_srec_income = 14639625

C11_Witness == Previewed /\ inp = ScenarioInputs /\ live.total_cost = 224770000

\* C12: the depreciation tax savings of year 1 are the depreciable basis
\* times the tax bracket; the Tax Savings of the year-1 row are that value,
\* the Tax Savings of every later row are 0, and the Total Benefit of every
\* later row is its Electric Savings plus its SREC Income.
C12_TaxSavingsFrontLoaded ==
    /\ Previewed =>
          live.year1_depreciation_tax_savings
            = Mul(live.depreciable_basis, inp.tax_bracket)
    /\ Written(1) => Record(1).I = live.year1_depreciation_tax_savings
    /\ \A y \in WrittenYears \ {1} :
          /\ Record(y).I = 0
          /\ Record(y).J = Record(y).E + Record(y).H

C12_Witness ==
    /\ Written(LastYear)
    /\ Record(1).I > 0
    /\ Record(1).J > Record(1).E + Record(1).H
    /\ Record(LastYear).I = 0

\* The run before generated a workbook from the same widget values.
Regenerating == last_cashflow # EmptySheet

\* C13: a generation from the widget values of the generation before writes
\* the same 25 rows: every row it has written is the row of the sheet
\* generated before, and the finished sheet is that sheet, Cumulative
\* included.
C13_Idempotent ==
    Regenerating =>
        /\ \A r \in DOMAIN ws_cashflow :
              r \in DOMAIN last_cashflow /\ ws_cashflow[r] = last_cashflow[r]
        /\ Generated => ws_cashflow = last_cashflow

C13_Witness ==
    /\ Regenerating
    /\ Generated
    /\ Written(LastYear)
    /\ Record(LastYear).K = last_cashflow[row_of(LastYear)].K
    /\ Record(LastYear).K # -live.after_itc_cost

\* The ten columns of a year's record, named as the header row names them.
TenColumns ==
    /\ 3 \in DOMAIN ws_cashflow
    /\ DOMAIN ws_cashflow[3] = {"B", "C", "D", "E", "F", "G", "H", "I", "J", "K"}
    /\ ws_cashflow[3].B = "Year" /\ ws_cashflow[3].C = "Electric Rate"
    /\ ws_cashflow[3].D = "Production" /\ ws_cashflow[3].E = "Electric Savings"
    /\ ws_cashflow[3].F = "SREC Value" /\ ws_cashflow[3].G = "SRECs"
    /\ ws_cashflow[3].H = "SREC Income" /\ ws_cashflow[3].I = "Tax Savings"
    /\ ws_cashflow[3].J = "Total Benefit" /\ ws_cashflow[3].K = "Cumulative"

\* The rows below the header are those of the years 1..n, the row 3 + y
\* holding year y in the ten columns.
YearsWritten(n) ==
    /\ TenColumns
    /\ DOMAIN ws_cashflow = {3} \cup {3 + y : y \in 1..n}
    /\ \A y \in 1..n :
          /\ ws_cashflow[3 + y].B = y
          /\ DOMAIN ws_cashflow[3 + y] = DOMAIN ws_cashflow[3]

\* One iteration leaves every row written before it as it was, writes a row
\* not written before, and leaves the values it reads as they were.
IterationFrame ==
    pc = "loop" =>
        /\ \A r \in DOMAIN ws_cashflow :
              r \in DOMAIN ws_cashflow' /\ ws_cashflow'[r] = ws_cashflow[r]
        /\ DOMAIN ws_cashflow' \ DOMAIN ws_cashflow = {3 + year}
        /\ inp' = inp
        /\ live' = live

\* C14: a generation writes exactly 25 records, one per year 1..25 in
\* ascending order, year y in row 3 + y with the ten columns Year to
\* Cumulative; no iteration overwrites a row written before it, and the loop
\* leaves the widget values and the preview's metrics it reads unchanged.
C14_RecordsWrittenOnce ==
    /\ [](pc = "loop" => YearsWritten(year - 1))
    /\ [](pc \in {"summary", "idle"} /\ generate_button => YearsWritten(LastYear))
    /\ [][IterationFrame]_vars

C14_Witness ==
    /\ Generated
    /\ Cardinality(WrittenYears) = 25
    /\ \A y \in 1..24 : Record(y).B < Record(y + 1).B
    /\ Record(1).K # Record(25).K

\* The widget values lie in the ranges of the form's boxes.
InFormRanges ==
    /\ inp.system_size_kw >= SizeMin
    /\ inp.tsrf >= 500
    /\ inp.electric_rate >= RateMin
    /\ \A c \in CategorySet : inp.pricing_inputs[c] >= PricingMin

\* C15: with the widget values in the ranges of the form (size at least
\* 1 kW, TSRF at least 500, rate at least 0.05, SREC value at least 0) the
\* divisor of the payback is strictly positive and the division is always
\* made; the payback is 0 only when the cost after ITC is 0, which is when
\* all 17 unit costs are 0.
C15_PaybackComputable ==
    (Previewed /\ InFormRanges /\ live.srec_value >= 0) =>
        /\ PaybackDivisor > 0
        /\ live.payback_divided
        /\ live.simple_payback = 0 => live.after_itc_cost = 0
        /\ live.after_itc_cost = 0 <=> inp.pricing_inputs = ZeroPricing

C15_Witness ==
    /\ Previewed
    /\ InFormRanges
    /\ inp.system_size_kw = SizeMin
    /\ inp.electric_rate = RateMin
    /\ inp.pricing_inputs = ZeroPricing
    /\ PaybackDivisor > 0
    /\ live.payback_divided
    /\ live.simple_payback = 0

=============================================================================
